---- MODULE Spec2Model ----
(***************************************************************************)
(* Model of the wordly game server: src/src/lib/server/socket.ts (room     *)
(* registry, turn engine, connection handlers) and src/src/lib/server/     *)
(* word.ts (dictionary lookups).                                           *)
(*                                                                         *)
(* Every socket.on(...) handler is one action; the helper functions        *)
(* (emitRoomPlayersUpdate, reassignRoomOwner, startGame, nextTurn) are     *)
(* operators on a context record [rooms, emitted, raised] that the         *)
(* handlers thread through in the order the code calls them.               *)
(*                                                                         *)
(* An optional JavaScript value (T | undefined) is the empty tuple <<>>    *)
(* when undefined and the one-element tuple <<v>> when it holds v.         *)
(* A string that the code inspects character by character (a word, a       *)
(* letter sequence) is a tuple of one-character strings.                   *)
(* The player's display name is not modelled: no branch reads it.          *)
(***************************************************************************)
EXTENDS Integers, Sequences, FiniteSets, TLC

(***************************************************************************)
(* Bounds and input sets                                                   *)
(***************************************************************************)
\* connections that exist over the run (socket ids; never reused)
SocketIds == {"s1", "s2", "s3"}
\* socket ids are arbitrary: the model numbers the connections in the order
\* of their first join-room
SocketRank(s) == CASE s = "s1" -> 1 [] s = "s2" -> 2 [] OTHER -> 3
\* room ids the clients send; the empty string is a string like any other to
\* rooms[roomId] and socket.join, and is falsy where the code tests
\* socket.data.activeRoom
RoomIds == {"", "A"}
\* how far below zero the model follows a life count
MaxDebt == 1
\* client events the server handles in one run
MaxEvents == 6
\* words the clients submit
WordInputs == { <<"a","b">>, <<"A","B">>, <<"a","b","b">>, <<"z","a","b">> }
\* timeRemaining values the clients send (<<>>: the field is missing)
TimeInputs == { <<>>, <<0>>, <<3>> }
\* the submit-word payloads the clients send: every word in time, and a
\* dictionary word and a non-word with every timeRemaining (the handler reads
\* no word when time is up)
SubmitInputs ==
    {[word |-> w, timeRemaining |-> <<3>>] : w \in WordInputs}
        \cup {[word |-> w, timeRemaining |-> t] :
                  w \in { <<"a","b">>, <<"z","a","b">> }, t \in TimeInputs}

(***************************************************************************)
(* Optional values                                                         *)
(***************************************************************************)
undefined == <<>>
Some(v) == <<v>>
IsDefined(o) == o # <<>>
Val(o) == o[1]

(***************************************************************************)
(* word.ts                                                                 *)
(***************************************************************************)
\* a small dictionary in place of static/words.txt:
\* the word list after initializeWordLibrary (trimmed, lower-cased lines)
validWords == { <<"a","b">>, <<"a","b","b">> }
\* the frequent letter sequences after initializeWordLibrary
validSequences == { <<"a","b">>, <<"b","b">> }

LowerChar(c) ==
    CASE c = "A" -> "a"
      [] c = "B" -> "b"
      [] c = "Z" -> "z"
      [] OTHER -> c

toLowerCase(w) == [i \in 1..Len(w) |-> LowerChar(w[i])]

\* String.prototype.includes
includes(w, s) ==
    \E i \in 0..(Len(w) - Len(s)) : SubSeq(w, i + 1, i + Len(s)) = s

\* a lookup that accepts every word
isValidWordAny(word) == TRUE

isValidWord(word) == toLowerCase(word) \in validWords

\* a test that finds every sequence in every word
containsSequenceAny(word, sequence) == TRUE

containsSequence(word, sequence) ==
    includes(toLowerCase(word), toLowerCase(sequence))

(***************************************************************************)
(* Map<string, GamePlayer>: a sequence of players in insertion order       *)
(***************************************************************************)
DEFAULT_LIVES == 2

GamePlayer(id, lives, isSpectator) ==
    [id |-> id, lives |-> lives, isSpectator |-> isSpectator]

MapKeys(players) == [i \in 1..Len(players) |-> players[i].id]
MapHas(players, id) == \E i \in 1..Len(players) : players[i].id = id
MapGet(players, id) ==
    players[CHOOSE i \in 1..Len(players) : players[i].id = id]
\* Map.set keeps the position of an existing key and appends a new one
MapSet(players, p) ==
    IF MapHas(players, p.id)
    THEN [i \in 1..Len(players) |->
            IF players[i].id = p.id THEN p ELSE players[i]]
    ELSE Append(players, p)
MapDelete(players, id) == SelectSeq(players, LAMBDA p : p.id # id)

(***************************************************************************)
(* State                                                                   *)
(***************************************************************************)
VARIABLES
    rooms,      \* const rooms: Record<string, Room>, a function on the ids present
    sockets,    \* per connection: its life cycle and socket.data.activeRoom
    emitted,    \* the events the last handler sent, in order
    replies,    \* the acknowledgement callbacks the last handler invoked, in order
    raised,     \* TRUE once a handler has thrown (uncaught: the process is gone)
    handled,    \* the number of events handled so far
    handler     \* the event name of the handler that ran last

vars == <<rooms, sockets, emitted, replies, raised, handled, handler>>

\* a creation that records no owner
NewRoomUnowned(owner) ==
    [players |-> <<>>, owner |-> "",
     currentLetters |-> undefined, currentPlayerIndex |-> undefined,
     playerOrder |-> undefined, usedWords |-> undefined]

\* interface Room, as created by join-room
NewRoom(owner) ==
    [players |-> <<>>, owner |-> owner,
     currentLetters |-> undefined, currentPlayerIndex |-> undefined,
     playerOrder |-> undefined, usedWords |-> undefined]

\* a deletion that is forgotten: the emptied room stays in the registry
DeleteRoomKept(rs, roomId) == rs

\* delete rooms[roomId]
DeleteRoom(rs, roomId) == [r \in (DOMAIN rs) \ {roomId} |-> rs[r]]
\* rooms[roomId] = room
PutRoom(rs, roomId, room) ==
    [r \in (DOMAIN rs) \cup {roomId} |-> IF r = roomId THEN room ELSE rs[r]]

\* what a handler has done so far
Ctx(rs, ev, ex) == [rooms |-> rs, emitted |-> ev, raised |-> ex]

(***************************************************************************)
(* Events (ServerToClientEvents) and callback payloads                     *)
(***************************************************************************)
Evt(type, to) ==
    [type |-> type, to |-> to, except |-> "", id |-> "", livesLeft |-> 0,
     isOwner |-> FALSE, players |-> <<>>, ownerId |-> "",
     currentPlayer |-> undefined, currentLetters |-> undefined,
     winner |-> undefined, scores |-> <<>>]

Emit(c, e) == [c EXCEPT !.emitted = Append(@, e)]

Reply(op) ==
    [op |-> op, success |-> FALSE,
     isOwner |-> FALSE, correct |-> FALSE, feedback |-> "",
     livesLeft |-> undefined, isEliminated |-> undefined,
     players |-> <<>>, ownerId |-> ""]

\* a score map that leaves out the players without lives
ScoresOfAlive(players) ==
    LET alive == SelectSeq(players, LAMBDA p : p.lives > 0)
    IN  [i \in 1..Len(alive) |-> <<alive[i].id, alive[i].lives>>]

\* scores[id] = player.lives for every player of the map, in insertion order
Scores(players) ==
    [i \in 1..Len(players) |-> <<players[i].id, players[i].lives>>]

(***************************************************************************)
(* Helpers of initializeSocketServer                                       *)
(***************************************************************************)
emitRoomPlayersUpdate(c, roomId) ==
    IF roomId \in DOMAIN c.rooms
    THEN Emit(c, [Evt("room-players", roomId) EXCEPT
                    !.players = c.rooms[roomId].players,
                    !.ownerId = c.rooms[roomId].owner])
    ELSE c

\* a scan that keeps the latest-joined player instead of the earliest
FirstNonSpectatorLatest(players) ==
    IF Len(players) > 0 THEN players[Len(players)].id ELSE ""

\* the id of the first player that is not a spectator, '' when there is none
FirstNonSpectator(players) ==
    IF \E i \in 1..Len(players) : ~players[i].isSpectator
    THEN players[CHOOSE i \in 1..Len(players) :
                    /\ ~players[i].isSpectator
                    /\ \A j \in 1..(i - 1) : players[j].isSpectator].id
    ELSE ""

\* a reassignment that is forgotten: the departed owner stays the owner
reassignRoomOwnerSkipped(c, roomId, currentOwnerId) == c

reassignRoomOwner(c, roomId, currentOwnerId) ==
    IF /\ roomId \in DOMAIN c.rooms
       /\ c.rooms[roomId].owner = currentOwnerId
       /\ Len(c.rooms[roomId].players) > 0
    THEN LET players == c.rooms[roomId].players
             first == FirstNonSpectator(players)
             nextOwner == IF first = "" /\ Len(players) > 0
                          THEN players[1].id ELSE first
         IN  IF nextOwner # ""
             THEN emitRoomPlayersUpdate(
                      Emit([c EXCEPT !.rooms[roomId].owner = nextOwner],
                           [Evt("room-joined", nextOwner) EXCEPT
                               !.id = roomId, !.isOwner = TRUE]),
                      roomId)
             ELSE c
    ELSE c

\* a start that always takes the too-few-players exit
startGameRefused(c, roomId, index, letters) ==
    Emit([c EXCEPT !.rooms[roomId].usedWords = Some({})],
         Evt("game-error", roomId))

\* index: the value of Math.floor(Math.random() * playerOrder.length);
\* letters: the value of generateLetters()
startGame(c, roomId, index, letters) ==
    LET c1 == [c EXCEPT !.rooms[roomId].usedWords = Some({})]
        room == c1.rooms[roomId]
    IN  IF Len(room.players) < 2
        THEN Emit(c1, Evt("game-error", roomId))
        ELSE LET order == MapKeys(room.players)
             IN  Emit([c1 EXCEPT !.rooms[roomId].playerOrder = Some(order),
                                 !.rooms[roomId].currentPlayerIndex = Some(index),
                                 !.rooms[roomId].currentLetters = Some(letters)],
                      [Evt("game-started", roomId) EXCEPT
                          !.players = room.players,
                          !.currentPlayer = Some(order[index + 1]),
                          !.currentLetters = Some(letters)])

\* a filter that keeps every member of playerOrder, whatever its lives
alivePlayersAll(room) ==
    SelectSeq(Val(room.playerOrder), LAMBDA id : MapHas(room.players, id))

\* room.playerOrder.filter(id => players.get(id) && players.get(id).lives > 0)
alivePlayers(room) ==
    SelectSeq(Val(room.playerOrder),
              LAMBDA id : MapHas(room.players, id)
                          /\ MapGet(room.players, id).lives > 0)

\* an advance that takes the next index without looking at its player's lives
AdvanceNoSkip(room, i) ==
    [index |-> (i + 1) % Len(Val(room.playerOrder)), threw |-> FALSE]

\* the do-while of nextTurn from index i: where it stops, and whether
\* players.get(...)!.lives was read on a player that is not in the map
RECURSIVE Advance(_, _)
Advance(room, i) ==
    LET order == Val(room.playerOrder)
        j == (i + 1) % Len(order)
    IN  IF ~MapHas(room.players, order[j + 1])
        THEN [index |-> j, threw |-> TRUE]
        ELSE IF MapGet(room.players, order[j + 1]).lives <= 0
             THEN Advance(room, j)
             ELSE [index |-> j, threw |-> FALSE]

\* an advance that draws new letters on every turn
nextTurnRedraw(c, roomId, letters) ==
    LET room == c.rooms[roomId]
    IN  IF ~IsDefined(room.playerOrder) \/ ~IsDefined(room.currentPlayerIndex)
        THEN c
        ELSE LET alive == alivePlayers(room)
             IN  IF Len(alive) <= 1
                 THEN Emit([c EXCEPT !.rooms[roomId].currentLetters = undefined,
                                     !.rooms[roomId].currentPlayerIndex = undefined,
                                     !.rooms[roomId].playerOrder = undefined,
                                     !.rooms[roomId].usedWords = undefined],
                           [Evt("game-ended", roomId) EXCEPT
                               !.id = roomId,
                               !.winner = IF Len(alive) = 1
                                          THEN Some(alive[1]) ELSE undefined,
                               !.scores = Scores(room.players)])
                 ELSE LET adv == Advance(room, Val(room.currentPlayerIndex))
                          c1 == [c EXCEPT
                                   !.rooms[roomId].currentPlayerIndex = Some(adv.index)]
                      IN  IF adv.threw
                          THEN [c1 EXCEPT !.raised = TRUE]
                          ELSE LET cur == Some(letters)
                               IN  Emit([c1 EXCEPT
                                           !.rooms[roomId].currentLetters = cur],
                                        [Evt("next-turn", roomId) EXCEPT
                                           !.currentPlayer =
                                              Some(Val(room.playerOrder)[adv.index + 1]),
                                           !.currentLetters = cur])

\* letters: the value generateLetters() returns if it is called
nextTurn(c, roomId, letters) ==
    LET room == c.rooms[roomId]
    IN  IF ~IsDefined(room.playerOrder) \/ ~IsDefined(room.currentPlayerIndex)
        THEN c
        ELSE LET alive == alivePlayers(room)
             IN  IF Len(alive) <= 1
                 THEN Emit([c EXCEPT !.rooms[roomId].currentLetters = undefined,
                                     !.rooms[roomId].currentPlayerIndex = undefined,
                                     !.rooms[roomId].playerOrder = undefined,
                                     !.rooms[roomId].usedWords = undefined],
                           [Evt("game-ended", roomId) EXCEPT
                               !.id = roomId,
                               !.winner = IF Len(alive) = 1
                                          THEN Some(alive[1]) ELSE undefined,
                               !.scores = Scores(room.players)])
                 ELSE LET adv == Advance(room, Val(room.currentPlayerIndex))
                          c1 == [c EXCEPT
                                   !.rooms[roomId].currentPlayerIndex = Some(adv.index)]
                      IN  IF adv.threw
                          THEN [c1 EXCEPT !.raised = TRUE]
                          ELSE LET cur == IF IsDefined(room.currentLetters)
                                          THEN room.currentLetters
                                          ELSE Some(letters)
                               IN  Emit([c1 EXCEPT
                                           !.rooms[roomId].currentLetters = cur],
                                        [Evt("next-turn", roomId) EXCEPT
                                           !.currentPlayer =
                                              Some(Val(room.playerOrder)[adv.index + 1]),
                                           !.currentLetters = cur])

(***************************************************************************)
(* Initial state: the server has been constructed and the clients have     *)
(* connected; io.on('connection') only records socket.data.userId and      *)
(* registers the handlers below, so a connection that has sent nothing     *)
(* leaves rooms empty and socket.data.activeRoom undefined.                *)
(***************************************************************************)
Init ==
    /\ rooms = <<>>
    /\ sockets = [s \in SocketIds |->
                    [status |-> "connected", activeRoom |-> undefined,
                     hasJoined |-> FALSE]]
    /\ emitted = <<>>
    /\ replies = <<>>
    /\ raised = FALSE
    /\ handled = 0
    /\ handler = ""

\* the process is alive and takes another event
Alive == ~raised /\ handled < MaxEvents

\* a handler runs for a connected socket while the process is alive
Connected(s) == sockets[s].status = "connected" /\ Alive

\* what a handler leaves behind
Finish(op, c, socks, rep) ==
    /\ handler' = op
    /\ replies' = rep
    /\ sockets' = socks
    /\ handled' = handled + 1
    /\ rooms' = c.rooms
    /\ emitted' = c.emitted
    /\ raised' = c.raised

Start == Ctx(rooms, <<>>, FALSE)

(***************************************************************************)
(* The removal of a player from a room, as join-room (for the previous     *)
(* room), leave-room and disconnect each write it out                      *)
(***************************************************************************)
\* a removal that is forgotten: the player stays in the map
DeletePlayerSkipped(c, roomId, s) == c

\* rooms[roomId].players.delete(socket.id)
DeletePlayer(c, roomId, s) ==
    [c EXCEPT !.rooms[roomId].players = MapDelete(@, s)]

\* join-room, lines 198-211
LeavePrevious(c, prev, s) ==
    LET c1 == reassignRoomOwner(DeletePlayer(c, prev, s), prev, s)
        c2 == IF Len(c1.rooms[prev].players) = 0
              THEN [c1 EXCEPT !.rooms = DeleteRoom(@, prev)]
              ELSE emitRoomPlayersUpdate(
                       Emit(c1, [Evt("player-left", prev) EXCEPT
                                    !.except = s, !.id = s]),
                       prev)
    IN  Emit(c2, [Evt("room-left", s) EXCEPT !.id = prev])

(***************************************************************************)
(* socket.on('join-room')                                                  *)
(***************************************************************************)
JoinRoom(s, roomId) ==
    /\ Connected(s)
    /\ \A t \in SocketIds : SocketRank(t) < SocketRank(s) => sockets[t].hasJoined
    /\ LET active == sockets[s].activeRoom
           c1 == IF /\ IsDefined(active) /\ Val(active) # ""
                    /\ Val(active) # roomId
                    /\ Val(active) \in DOMAIN rooms
                    /\ MapHas(rooms[Val(active)].players, s)
                 THEN LeavePrevious(Start, Val(active), s)
                 ELSE Start
           created == roomId \notin DOMAIN c1.rooms
           c2 == IF created
                 THEN [c1 EXCEPT !.rooms = PutRoom(@, roomId, NewRoom(s))]
                 ELSE c1
           c3 == [c2 EXCEPT !.rooms[roomId].players =
                     MapSet(@, GamePlayer(s, DEFAULT_LIVES, FALSE))]
           isOwner == created \/ c3.rooms[roomId].owner = s
           c4 == Emit(c3, [Evt("player-joined", roomId) EXCEPT
                              !.except = s, !.id = s])
           c5 == Emit(c4, [Evt("room-joined", s) EXCEPT
                              !.id = roomId, !.isOwner = isOwner])
           c6 == emitRoomPlayersUpdate(c5, roomId)
       IN  Finish("join-room", c6,
                  [sockets EXCEPT ![s].activeRoom = Some(roomId),
                                  ![s].hasJoined = TRUE],
                  << [Reply("join-room") EXCEPT
                         !.success = TRUE, !.isOwner = isOwner] >>)

(***************************************************************************)
(* socket.on('get-room-players')                                           *)
(***************************************************************************)
\* a handler that forgets the callback when the room does not exist
GetRoomPlayersNoAck(s, roomId) ==
    /\ Connected(s)
    /\ Finish("get-room-players", Start, sockets,
              IF roomId \in DOMAIN rooms
              THEN << [Reply("get-room-players") EXCEPT
                         !.players = rooms[roomId].players,
                         !.ownerId = rooms[roomId].owner] >>
              ELSE <<>>)

GetRoomPlayers(s, roomId) ==
    /\ Connected(s)
    /\ Finish("get-room-players", Start, sockets,
              << IF roomId \in DOMAIN rooms
                 THEN [Reply("get-room-players") EXCEPT
                          !.players = rooms[roomId].players,
                          !.ownerId = rooms[roomId].owner]
                 ELSE Reply("get-room-players") >>)

(***************************************************************************)
(* socket.on('leave-room')                                                 *)
(***************************************************************************)
\* a leave that takes the player out of every room it is in
LeaveRoomEverywhere(s, roomId) ==
    /\ Connected(s)
    /\ IF roomId \in DOMAIN rooms /\ MapHas(rooms[roomId].players, s)
       THEN LET c1 == reassignRoomOwner(DeletePlayer(Start, roomId, s), roomId, s)
                c2 == IF Len(c1.rooms[roomId].players) = 0
                      THEN [c1 EXCEPT !.rooms = DeleteRoom(@, roomId)]
                      ELSE emitRoomPlayersUpdate(c1, roomId)
                c3 == Emit(c2, [Evt("player-left", roomId) EXCEPT
                                   !.except = s, !.id = s])
                c4 == Emit(c3, [Evt("room-left", s) EXCEPT !.id = roomId])
                c5 == [c4 EXCEPT !.rooms =
                          [q \in DOMAIN c4.rooms |->
                              [c4.rooms[q] EXCEPT !.players = MapDelete(@, s)]]]
            IN  Finish("leave-room", c5,
                       [sockets EXCEPT ![s].activeRoom = undefined],
                       << [Reply("leave-room") EXCEPT
                              !.success = TRUE] >>)
       ELSE Finish("leave-room", Start, sockets, << Reply("leave-room") >>)

LeaveRoom(s, roomId) ==
    /\ Connected(s)
    /\ IF roomId \in DOMAIN rooms /\ MapHas(rooms[roomId].players, s)
       THEN LET c1 == reassignRoomOwner(DeletePlayer(Start, roomId, s), roomId, s)
                c2 == IF Len(c1.rooms[roomId].players) = 0
                      THEN [c1 EXCEPT !.rooms = DeleteRoom(@, roomId)]
                      ELSE emitRoomPlayersUpdate(c1, roomId)
                c3 == Emit(c2, [Evt("player-left", roomId) EXCEPT
                                   !.except = s, !.id = s])
                c4 == Emit(c3, [Evt("room-left", s) EXCEPT !.id = roomId])
            IN  Finish("leave-room", c4,
                       [sockets EXCEPT ![s].activeRoom = undefined],
                       << [Reply("leave-room") EXCEPT
                              !.success = TRUE] >>)
       ELSE Finish("leave-room", Start, sockets, << Reply("leave-room") >>)

(***************************************************************************)
(* socket.on('disconnect')                                                 *)
(***************************************************************************)
Disconnect(s) ==
    /\ Connected(s)
    /\ LET active == sockets[s].activeRoom
           c1 == IF /\ IsDefined(active) /\ Val(active) # ""
                    /\ Val(active) \in DOMAIN rooms
                 THEN LET roomId == Val(active)
                          d == reassignRoomOwner(
                                   DeletePlayer(Start, roomId, s), roomId, s)
                      IN  IF Len(d.rooms[roomId].players) = 0
                          THEN [d EXCEPT !.rooms = DeleteRoom(@, roomId)]
                          ELSE emitRoomPlayersUpdate(
                                   Emit(d, [Evt("player-left", roomId) EXCEPT
                                               !.except = s, !.id = s]),
                                   roomId)
                 ELSE Start
       IN  Finish("disconnect", c1, [sockets EXCEPT ![s].status = "closed"], <<>>)

(***************************************************************************)
(* socket.on('start-game')                                                 *)
(***************************************************************************)
\* a start that forgets the reset loop: the players keep what they had
ResetPlayersSkipped(players) == players

\* for (const player of room.players.values()) { lives = 2; isSpectator = false }
ResetPlayers(players) ==
    [i \in 1..Len(players) |-> GamePlayer(players[i].id, DEFAULT_LIVES, FALSE)]

\* a start-game handler without the owner check
StartGameAnyone(s, roomId) ==
    /\ Connected(s)
    /\ IF roomId \notin DOMAIN rooms
       THEN Finish("start-game", Start, sockets, << Reply("start-game") >>)
       ELSE \E letters \in validSequences :
            \E index \in 0..(Len(rooms[roomId].players) - 1) :
               LET c1 == [Start EXCEPT !.rooms[roomId].players = ResetPlayers(@)]
               IN  Finish("start-game", startGame(c1, roomId, index, letters), sockets,
                          << [Reply("start-game") EXCEPT !.success = TRUE] >>)

StartGame(s, roomId) ==
    /\ Connected(s)
    /\ IF roomId \notin DOMAIN rooms
       THEN Finish("start-game", Start, sockets, << Reply("start-game") >>)
       ELSE IF rooms[roomId].owner # s
       THEN Finish("start-game", Start, sockets, << Reply("start-game") >>)
       ELSE \E letters \in validSequences :
            \E index \in 0..(Len(rooms[roomId].players) - 1) :
               LET c1 == [Start EXCEPT !.rooms[roomId].players = ResetPlayers(@)]
               IN  Finish("start-game", startGame(c1, roomId, index, letters), sockets,
                          << [Reply("start-game") EXCEPT
                                 !.success = TRUE] >>)

(***************************************************************************)
(* socket.on('end-game')                                                   *)
(***************************************************************************)
\* the forEach that keeps the first player with the most lives, from
\* winner = '' and maxLives = -1
RECURSIVE MaxLivesWinner(_, _, _, _)
MaxLivesWinner(players, i, winner, maxLives) ==
    IF i > Len(players)
    THEN winner
    ELSE IF players[i].lives > maxLives
         THEN MaxLivesWinner(players, i + 1, players[i].id, players[i].lives)
         ELSE MaxLivesWinner(players, i + 1, winner, maxLives)

EndGame(s, roomId) ==
    /\ Connected(s)
    /\ IF /\ roomId \in DOMAIN rooms
          /\ MapHas(rooms[roomId].players, s)
          /\ rooms[roomId].owner = s
       THEN LET players == rooms[roomId].players
            IN  Finish("end-game", Emit(Start, [Evt("game-ended", roomId) EXCEPT
                                      !.id = roomId,
                                      !.winner = Some(MaxLivesWinner(players, 1, "", -1)),
                                      !.scores = Scores(players)]),
                       sockets,
                       << [Reply("end-game") EXCEPT !.success = TRUE] >>)
       ELSE Finish("end-game", Start, sockets, << Reply("end-game") >>)

(***************************************************************************)
(* socket.on('submit-word')                                                *)
(***************************************************************************)
WordReply(correct, feedback) ==
    [Reply("submit-word") EXCEPT
        !.correct = correct, !.feedback = feedback]

\* const isTimeUp = timeRemaining <= 0 (false for a missing timeRemaining)
isTimeUp(timeRemaining) == IsDefined(timeRemaining) /\ Val(timeRemaining) <= 0

\* a timeout path that takes an eliminated player out of the room
SubmitTimeUpRemoves(s, roomId, letters) ==
    LET player == MapGet(rooms[roomId].players, s)
        lives == player.lives - 1
        c1 == [Start EXCEPT !.rooms[roomId].players =
                  IF lives <= 0
                  THEN MapDelete(@, s)
                  ELSE MapSet(@, [player EXCEPT !.lives = lives])]
        c2 == IF lives <= 0
              THEN Emit(c1, [Evt("player-eliminated", roomId) EXCEPT !.id = s])
              ELSE Emit(c1, [Evt("player-lost-life", roomId) EXCEPT
                                !.id = s, !.livesLeft = lives])
    IN  Finish("submit-word", nextTurn(c2, roomId, letters), sockets,
               << [WordReply(FALSE,
                             IF lives <= 0 THEN "You have been eliminated"
                                           ELSE "Time is up")
                     EXCEPT !.livesLeft = Some(lives)] >>)

\* lines 359-383: the life is taken, the event sent, the callback invoked,
\* then the turn advances
SubmitTimeUp(s, roomId, letters) ==
    LET player == MapGet(rooms[roomId].players, s)
        lives == player.lives - 1
        c1 == [Start EXCEPT !.rooms[roomId].players =
                  MapSet(@, [player EXCEPT !.lives = lives])]
        c2 == IF lives <= 0
              THEN Emit(c1, [Evt("player-eliminated", roomId) EXCEPT !.id = s])
              ELSE Emit(c1, [Evt("player-lost-life", roomId) EXCEPT
                                !.id = s, !.livesLeft = lives])
    IN  Finish("submit-word", nextTurn(c2, roomId, letters), sockets,
               << [WordReply(FALSE,
                             IF lives <= 0 THEN "You have been eliminated"
                                           ELSE "Time is up")
                     EXCEPT !.livesLeft = Some(lives)] >>)

\* room.usedWords.has(word.toLowerCase()), without the lower-casing
usedWordsHasExact(used, word) == word \in used

\* room.usedWords.has(word.toLowerCase())
usedWordsHas(used, word) == toLowerCase(word) \in used

\* lines 410-450: the word checks of the turn holder
SubmitChecked(s, roomId, word, letters) ==
    LET room == rooms[roomId]
        player == MapGet(room.players, s)
    IN  IF ~isValidWord(word)
        THEN Finish("submit-word", Start, sockets,
                    << WordReply(FALSE, "Not a valid word") >>)
        ELSE LET used == IF IsDefined(room.usedWords)
                         THEN room.usedWords ELSE Some({})
                 c1 == [Start EXCEPT !.rooms[roomId].usedWords = used]
             IN  IF usedWordsHas(Val(used), word)
                 THEN Finish("submit-word", c1, sockets,
                             << WordReply(FALSE,
                                          "This word has already been used") >>)
                 ELSE IF \/ ~IsDefined(room.currentLetters)
                         \/ Val(room.currentLetters) = <<>>
                         \/ ~containsSequence(word, Val(room.currentLetters))
                 THEN Finish("submit-word", c1, sockets,
                             << [WordReply(FALSE, "Word does not contain")
                                   EXCEPT !.livesLeft = Some(player.lives)] >>)
                 ELSE LET c2 == [c1 EXCEPT !.rooms[roomId].usedWords =
                                    Some(Val(used) \cup {toLowerCase(word)})]
                      IN  Finish("submit-word", nextTurn(c2, roomId, letters), sockets,
                                 << [WordReply(TRUE, "Correct!")
                                       EXCEPT !.livesLeft = Some(player.lives)] >>)

SubmitWord(s, roomId, word, timeRemaining) ==
    /\ Connected(s)
    /\ IF roomId \notin DOMAIN rooms
       THEN Finish("submit-word", Start, sockets,
                   << WordReply(FALSE, "Room not found") >>)
       ELSE IF ~MapHas(rooms[roomId].players, s)
       THEN Finish("submit-word", Start, sockets,
                   << WordReply(FALSE, "Player not found in room") >>)
       ELSE IF isTimeUp(timeRemaining)
       THEN /\ MapGet(rooms[roomId].players, s).lives > -MaxDebt
            /\ \E letters \in validSequences : SubmitTimeUp(s, roomId, letters)
       ELSE IF MapGet(rooms[roomId].players, s).isSpectator
       THEN Finish("submit-word", Start, sockets,
                   << [WordReply(FALSE,
                                 "You are a spectator and cannot submit words")
                         EXCEPT !.isEliminated = Some(TRUE)] >>)
       ELSE IF \/ ~IsDefined(rooms[roomId].playerOrder)
               \/ ~IsDefined(rooms[roomId].currentPlayerIndex)
       THEN Finish("submit-word", Start, sockets,
                   << WordReply(FALSE, "Game not properly initialized") >>)
       ELSE IF Val(rooms[roomId].playerOrder)
                  [Val(rooms[roomId].currentPlayerIndex) + 1] # s
       THEN Finish("submit-word", Start, sockets,
                   << WordReply(FALSE, "Not your turn") >>)
       ELSE \E letters \in validSequences : SubmitChecked(s, roomId, word, letters)

(***************************************************************************)
(* socket.on('player-typing')                                              *)
(***************************************************************************)
\* a handler that relays the typing of every sender of an existing room
PlayerTypingAnyone(s, roomId) ==
    /\ Connected(s)
    /\ IF roomId \in DOMAIN rooms
       THEN Finish("player-typing", Emit(Start, [Evt("player-typing-update", roomId) EXCEPT
                                   !.except = s, !.id = s]),
                   sockets, <<>>)
       ELSE Finish("player-typing", Start, sockets, <<>>)

PlayerTyping(s, roomId) ==
    /\ Connected(s)
    /\ IF /\ roomId \in DOMAIN rooms
          /\ IsDefined(rooms[roomId].playerOrder)
          /\ IsDefined(rooms[roomId].currentPlayerIndex)
          /\ Val(rooms[roomId].playerOrder)
                [Val(rooms[roomId].currentPlayerIndex) + 1] = s
       THEN Finish("player-typing", Emit(Start, [Evt("player-typing-update", roomId) EXCEPT
                                   !.except = s, !.id = s]),
                   sockets, <<>>)
       ELSE Finish("player-typing", Start, sockets, <<>>)

(***************************************************************************)
(* The server: one event at a time (Node's event loop)                     *)
(***************************************************************************)
Next ==
    \/ \E s \in SocketIds, r \in RoomIds : JoinRoom(s, r)
    \/ \E s \in SocketIds, r \in RoomIds : GetRoomPlayers(s, r)
    \/ \E s \in SocketIds, r \in RoomIds : LeaveRoom(s, r)
    \/ \E s \in SocketIds, r \in RoomIds : StartGame(s, r)
    \/ \E s \in SocketIds, r \in RoomIds : EndGame(s, r)
    \/ \E s \in SocketIds, r \in RoomIds, d \in SubmitInputs :
          SubmitWord(s, r, d.word, d.timeRemaining)
    \/ \E s \in SocketIds, r \in RoomIds : PlayerTyping(s, r)
    \/ \E s \in SocketIds : Disconnect(s)

Spec == Init /\ [][Next]_vars

(***************************************************************************)
(* Notions of the specification, read off the state                        *)
(***************************************************************************)
\* the four Turn State fields of a room
TurnStateAbsent(room) ==
    /\ ~IsDefined(room.playerOrder)
    /\ ~IsDefined(room.currentPlayerIndex)
    /\ ~IsDefined(room.currentLetters)
    /\ ~IsDefined(room.usedWords)

\* IN_PROGRESS: the room has a turn order and a current index
InProgress(room) ==
    IsDefined(room.playerOrder) /\ IsDefined(room.currentPlayerIndex)

\* playerOrder[currentIndex]
CurrentPlayer(room) ==
    Val(room.playerOrder)[Val(room.currentPlayerIndex) + 1]

\* the ids of order that are members of players with lives > 0
AliveIds(order, players) ==
    {order[i] : i \in {j \in 1..Len(order) :
                          /\ MapHas(players, order[j])
                          /\ MapGet(players, order[j]).lives > 0}}

\* the events of one type that the last handler sent to a room
Sent(type, roomId) ==
    {i \in 1..Len(emitted) : emitted[i].type = type /\ emitted[i].to = roomId}

(***************************************************************************)
(* C1: a room is in the registry only with at least one player: every      *)
(* event that empties a room's player map also deletes the room.           *)
(***************************************************************************)
C1_RoomPresentIffPlayers ==
    \A r \in RoomIds :
        (r \in DOMAIN rooms) <=>
            (r \in DOMAIN rooms /\ Len(rooms[r].players) >= 1)

\* the last handler took the last player out of a room, and the room is gone
C1_Witness ==
    \E i \in 1..Len(emitted) :
        /\ emitted[i].type = "room-left"
        /\ emitted[i].id \notin DOMAIN rooms

(***************************************************************************)
(* C2: in every room that has a player, the owner id is the id of one of   *)
(* the players in the room's map.                                          *)
(***************************************************************************)
C2_OwnerIsMember ==
    \A r \in DOMAIN rooms :
        Len(rooms[r].players) >= 1 => MapHas(rooms[r].players, rooms[r].owner)

\* the last handler removed the owner and handed the room to another member
C2_Witness ==
    /\ Len(emitted) >= 1
    /\ emitted[1].type = "room-joined"
    /\ emitted[1].isOwner
    /\ emitted[1].id \in DOMAIN rooms
    /\ rooms[emitted[1].id].owner = emitted[1].to
    /\ \E i \in 1..Len(emitted) : emitted[i].type = "player-left"

(***************************************************************************)
(* C3: a start-game by the owner of a room with fewer than 2 players       *)
(* replies success = false and leaves all four Turn State fields unset.    *)
(***************************************************************************)
C3_StartBelowTwoFails ==
    [][\A s \in SocketIds, r \in RoomIds :
          ( /\ r \in DOMAIN rooms
            /\ rooms[r].owner = s
            /\ Len(rooms[r].players) < 2
            /\ StartGame(s, r) )
          => ( /\ replies' = << Reply("start-game") >>
               /\ TurnStateAbsent(rooms'[r]) )]_vars

(***************************************************************************)
(* C4: a submit-word from a sender that is not the turn holder of an       *)
(* IN_PROGRESS room, or that is a spectator, changes no lives, does not    *)
(* advance the turn and broadcasts no life-loss, elimination, next-turn    *)
(* or game-ended event, whatever timeRemaining is.                         *)
(***************************************************************************)
MaySubmit(s, r) ==
    /\ r \in DOMAIN rooms
    /\ MapHas(rooms[r].players, s)
    /\ InProgress(rooms[r])
    /\ CurrentPlayer(rooms[r]) = s
    /\ ~MapGet(rooms[r].players, s).isSpectator

C4_RejectedSubmitIsNoOp ==
    [][\A s \in SocketIds, r \in RoomIds, d \in SubmitInputs :
          ( /\ ~MaySubmit(s, r)
            /\ SubmitWord(s, r, d.word, d.timeRemaining) )
          => ( /\ ~replies'[1].correct
               /\ r \in DOMAIN rooms =>
                     /\ rooms'[r].players = rooms[r].players
                     /\ rooms'[r].currentPlayerIndex = rooms[r].currentPlayerIndex
               /\ \A i \in 1..Len(emitted') :
                     emitted'[i].type \notin
                        {"player-lost-life", "player-eliminated",
                         "next-turn", "game-ended"} )]_vars

(***************************************************************************)
(* C5: whenever a room has Turn State and at least 2 players of            *)
(* playerOrder are alive, playerOrder[currentIndex] is a player of the     *)
(* room with lives > 0.                                                    *)
(***************************************************************************)
C5_CurrentPlayerAlive ==
    \A r \in DOMAIN rooms :
        ( /\ InProgress(rooms[r])
          /\ Cardinality(AliveIds(Val(rooms[r].playerOrder), rooms[r].players)) >= 2 )
        => CurrentPlayer(rooms[r]) \in
              AliveIds(Val(rooms[r].playerOrder), rooms[r].players)

(***************************************************************************)
(* C6: once a player of playerOrder has left a game that keeps at least 2  *)
(* alive players, every accepted word and every timeout ends in a          *)
(* next-turn or game-ended broadcast, and no handler throws.               *)
(***************************************************************************)
HasDeparted(room) ==
    \E i \in 1..Len(Val(room.playerOrder)) :
        ~MapHas(room.players, Val(room.playerOrder)[i])

C6_DepartedPlayerNeverFatal ==
    [][\A s \in SocketIds, r \in RoomIds, d \in SubmitInputs :
          ( /\ r \in DOMAIN rooms
            /\ InProgress(rooms[r])
            /\ HasDeparted(rooms[r])
            /\ Cardinality(AliveIds(Val(rooms[r].playerOrder),
                                    rooms[r].players)) >= 2
            /\ MapHas(rooms[r].players, s)
            /\ SubmitWord(s, r, d.word, d.timeRemaining)
            /\ (replies'[1].correct \/ isTimeUp(d.timeRemaining)) )
          => ( /\ ~raised'
               /\ Len(emitted') >= 1
               /\ emitted'[Len(emitted')].type \in {"next-turn", "game-ended"} )]_vars

(***************************************************************************)
(* C7: when the number of alive players of an IN_PROGRESS room goes from   *)
(* 2 or more to 1 or 0 in an event, that event broadcasts exactly one      *)
(* game-ended to the room and leaves the room without Turn State.          *)
(***************************************************************************)
C7_GameEndsWhenOneAlive ==
    [][\A r \in RoomIds :
          ( /\ r \in DOMAIN rooms
            /\ r \in DOMAIN rooms'
            /\ InProgress(rooms[r])
            /\ Cardinality(AliveIds(Val(rooms[r].playerOrder),
                                    rooms[r].players)) >= 2
            /\ Cardinality(AliveIds(Val(rooms[r].playerOrder),
                                    rooms'[r].players)) <= 1 )
          => ( /\ Cardinality({i \in 1..Len(emitted') :
                                  /\ emitted'[i].type = "game-ended"
                                  /\ emitted'[i].to = r}) = 1
               /\ TurnStateAbsent(rooms'[r]) )]_vars

(***************************************************************************)
(* C8: after a handler has broadcast game-ended to a room, the room has    *)
(* no Turn State: playerOrder, currentIndex, currentChallenge and          *)
(* usedWords are all absent.                                               *)
(***************************************************************************)
C8_TurnStateClearedOnGameEnd ==
    \A r \in DOMAIN rooms :
        Sent("game-ended", r) # {} => TurnStateAbsent(rooms[r])

(***************************************************************************)
(* C9: every player's lives is at least 0.                                 *)
(***************************************************************************)
C9_LivesNeverNegative ==
    \A r \in DOMAIN rooms :
        \A i \in 1..Len(rooms[r].players) : rooms[r].players[i].lives >= 0

(***************************************************************************)
(* C10: the player named by a player-eliminated broadcast is a spectator   *)
(* in the room state the eliminating handler leaves.                       *)
(***************************************************************************)
C10_EliminatedIsSpectator ==
    \A r \in DOMAIN rooms :
        \A i \in Sent("player-eliminated", r) :
            MapHas(rooms[r].players, emitted[i].id)
                => MapGet(rooms[r].players, emitted[i].id).isSpectator

(***************************************************************************)
(* C11: a join-room for a room the connection is already a member of       *)
(* leaves that player's lives and spectator flag as they were.             *)
(***************************************************************************)
C11_RejoinPreservesPlayer ==
    [][\A s \in SocketIds, r \in RoomIds :
          ( /\ r \in DOMAIN rooms
            /\ MapHas(rooms[r].players, s)
            /\ JoinRoom(s, r) )
          => ( /\ MapGet(rooms'[r].players, s).lives
                    = MapGet(rooms[r].players, s).lives
               /\ MapGet(rooms'[r].players, s).isSpectator
                    = MapGet(rooms[r].players, s).isSpectator )]_vars

(***************************************************************************)
(* C12: after a start-game that replies success, every player of the room  *)
(* has lives = 2 and isSpectator = false, whatever they had before.        *)
(***************************************************************************)
C12_StartResetsPlayers ==
    [][\A r \in RoomIds :
          ( /\ replies' # <<>>
            /\ replies'[1].op = "start-game"
            /\ replies'[1].success
            /\ \E s \in SocketIds : StartGame(s, r) )
          => \A i \in 1..Len(rooms'[r].players) :
                /\ rooms'[r].players[i].lives = DEFAULT_LIVES
                /\ ~rooms'[r].players[i].isSpectator]_vars

\* the last handler started a game for a room of at least 2 players
C12_Witness ==
    /\ Len(replies) = 1
    /\ replies[1].op = "start-game"
    /\ replies[1].success
    /\ \E r \in DOMAIN rooms :
          /\ Sent("game-started", r) # {}
          /\ Len(rooms[r].players) >= 2
          /\ \A i \in 1..Len(rooms[r].players) :
                rooms[r].players[i].lives = DEFAULT_LIVES

(***************************************************************************)
(* C13 as claimed: a submit-word whose word is not in the dictionary       *)
(* leaves currentIndex and usedWords unchanged and broadcasts neither      *)
(* next-turn nor game-ended, for every timeRemaining.                      *)
(***************************************************************************)
NoTurnAdvance(r) ==
    /\ r \in DOMAIN rooms =>
          /\ r \in DOMAIN rooms'
          /\ rooms'[r].currentPlayerIndex = rooms[r].currentPlayerIndex
          /\ rooms'[r].usedWords = rooms[r].usedWords
    /\ \A i \in 1..Len(emitted') :
          emitted'[i].type \notin {"next-turn", "game-ended"}

\* (the consequence is written first: it is the cheaper part to evaluate)
C13_InvalidWordNeverAdvances ==
    [][\A r \in RoomIds :
          \/ NoTurnAdvance(r)
          \/ ~\E s \in SocketIds, d \in SubmitInputs :
                /\ toLowerCase(d.word) \notin validWords
                /\ SubmitWord(s, r, d.word, d.timeRemaining)]_vars

(***************************************************************************)
(* C13 as amended: a submit-word that is not out of time (timeRemaining    *)
(* missing or above 0) and whose word is not in the dictionary leaves      *)
(* currentIndex and usedWords unchanged and broadcasts neither next-turn   *)
(* nor game-ended.                                                         *)
(***************************************************************************)
C13_InvalidWordInTimeNeverAdvances ==
    [][\A r \in RoomIds :
          \/ handler' # "submit-word"
          \/ NoTurnAdvance(r)
          \/ ~\E s \in SocketIds, d \in SubmitInputs :
                /\ toLowerCase(d.word) \notin validWords
                /\ ~(IsDefined(d.timeRemaining) /\ Val(d.timeRemaining) <= 0)
                /\ SubmitWord(s, r, d.word, d.timeRemaining)]_vars

\* the turn holder of a running game has just been told its word is no word
C13_Witness ==
    /\ Len(replies) = 1
    /\ replies[1].op = "submit-word"
    /\ replies[1].feedback = "Not a valid word"
    /\ \E r \in DOMAIN rooms : InProgress(rooms[r])

C15_NextTurnPlayerAlive ==
    \A r \in DOMAIN rooms :
        \A i \in Sent("next-turn", r) :
            /\ InProgress(rooms[r])
            /\ emitted[i].currentPlayer = Some(CurrentPlayer(rooms[r]))
            /\ MapHas(rooms[r].players, CurrentPlayer(rooms[r]))
            /\ MapGet(rooms[r].players, CurrentPlayer(rooms[r])).lives > 0

\* a next-turn was broadcast and the player just before the announced one in
\* playerOrder is in the room with no lives left: the advance skipped it
C15_Witness ==
    \E r \in DOMAIN rooms :
        /\ Sent("next-turn", r) # {}
        /\ InProgress(rooms[r])
        /\ LET order == Val(rooms[r].playerOrder)
               n == Len(order)
               before == order[((Val(rooms[r].currentPlayerIndex) + n - 1) % n) + 1]
           IN  /\ n >= 3
               /\ MapHas(rooms[r].players, before)
               /\ MapGet(rooms[r].players, before).lives <= 0

(***************************************************************************)
(* C16: each of join-room, get-room-players, leave-room, start-game,       *)
(* end-game and submit-word invokes its acknowledgement callback exactly   *)
(* once, on every path through the handler.                                *)
(***************************************************************************)
CallbackEvents ==
    {"join-room", "get-room-players", "leave-room", "start-game", "end-game",
     "submit-word"}

C16_CallbackExactlyOnce ==
    handler \in CallbackEvents =>
        /\ Len(replies) = 1
        /\ replies[1].op = handler

\* a timed-out submit-word has eliminated its sender and ended the game: the
\* callback ran once, before nextTurn broadcast game-ended
C16_Witness ==
    /\ Len(replies) = 1
    /\ replies[1].op = "submit-word"
    /\ replies[1].feedback = "You have been eliminated"
    /\ \E r \in DOMAIN rooms : Sent("game-ended", r) # {}

(***************************************************************************)
(* C17: a connection is a member of at most one room at any time.          *)
(***************************************************************************)
RoomsOf(s) == {r \in DOMAIN rooms : MapHas(rooms[r].players, s)}

C17_AtMostOneRoom ==
    \A s \in SocketIds : Cardinality(RoomsOf(s)) <= 1

(***************************************************************************)
(* C18: when a player is removed from a room that keeps players, the owner *)
(* stays if the removed player was not the owner; otherwise the new owner  *)
(* is the earliest-joined remaining non-spectator, or the earliest-joined  *)
(* remaining player when all that remain are spectators.                   *)
(***************************************************************************)
ExpectedOwner(players) ==
    LET active == SelectSeq(players, LAMBDA p : ~p.isSpectator)
    IN  IF active # <<>> THEN active[1].id ELSE players[1].id

C18_OwnerReassignment ==
    [][\A r \in RoomIds :
          (r \in DOMAIN rooms /\ r \in DOMAIN rooms') =>
             \A s \in SocketIds :
                ( /\ MapHas(rooms[r].players, s)
                  /\ ~MapHas(rooms'[r].players, s) )
                => rooms'[r].owner =
                      IF rooms[r].owner = s
                      THEN ExpectedOwner(rooms'[r].players)
                      ELSE rooms[r].owner]_vars

\* the owner of a room of three has just been removed, and the room went to
\* the earlier-joined of the two that remain
C18_Witness ==
    /\ Len(emitted) >= 1
    /\ emitted[1].type = "room-joined"
    /\ emitted[1].isOwner
    /\ emitted[1].id \in DOMAIN rooms
    /\ Len(rooms[emitted[1].id].players) >= 2
    /\ rooms[emitted[1].id].owner = rooms[emitted[1].id].players[1].id
    /\ handler \in {"leave-room", "disconnect", "join-room"}

(***************************************************************************)
(* C19: leave-room for a room that does not exist, or of which the         *)
(* connection is not a member, replies false and changes no room and no    *)
(* session; otherwise it replies true and the connection is no longer in   *)
(* the room's player map.                                                  *)
(***************************************************************************)
C19_LeaveRoomReply ==
    [][handler' = "leave-room" =>
          \A s \in SocketIds, r \in RoomIds :
             LeaveRoom(s, r) =>
                IF r \in DOMAIN rooms /\ MapHas(rooms[r].players, s)
                THEN /\ replies'[1].success
                     /\ r \in DOMAIN rooms' => ~MapHas(rooms'[r].players, s)
                ELSE /\ ~replies'[1].success
                     /\ rooms' = rooms
                     /\ sockets' = sockets]_vars

\* a leave-room has just been refused while rooms exist
C19_Witness ==
    /\ handler = "leave-room"
    /\ Len(replies) = 1
    /\ ~replies[1].success
    /\ DOMAIN rooms # {}

(***************************************************************************)
(* C20: a start-game for a room that does not exist, or from a connection  *)
(* that is not the room's owner, replies false and changes no room: no     *)
(* lives, no spectator flag and no Turn State field.                       *)
(***************************************************************************)
C20_OnlyOwnerStarts ==
    [][handler' = "start-game" =>
          \A s \in SocketIds, r \in RoomIds :
             ( /\ r \notin DOMAIN rooms \/ rooms[r].owner # s
               /\ StartGame(s, r) )
             => ( /\ ~replies'[1].success
                  /\ rooms' = rooms )]_vars

\* a start-game has just been refused while a room of at least 2 players,
\* one of them not the owner, exists
C20_Witness ==
    /\ handler = "start-game"
    /\ Len(replies) = 1
    /\ ~replies[1].success
    /\ \E r \in DOMAIN rooms : Len(rooms[r].players) >= 2

(***************************************************************************)
(* C21: every event that changes the player map or the owner of a room     *)
(* that still exists (join, leave, disconnect, owner reassignment, life    *)
(* loss, elimination, lives reset at game start) broadcasts room-players   *)
(* to the room with the player list and owner the event leaves.            *)
(***************************************************************************)
C21_ChangeBroadcastsRoomPlayers ==
    [][\A r \in RoomIds :
          ( /\ r \in DOMAIN rooms
            /\ r \in DOMAIN rooms'
            /\ \/ rooms'[r].players # rooms[r].players
               \/ rooms'[r].owner # rooms[r].owner )
          => \E i \in 1..Len(emitted') :
                /\ emitted'[i].type = "room-players"
                /\ emitted'[i].to = r
                /\ emitted'[i].players = rooms'[r].players
                /\ emitted'[i].ownerId = rooms'[r].owner]_vars

(***************************************************************************)
(* C22: in a game of two players, when the current player times out it     *)
(* loses a life and player-lost-life announces 1 life left; when the same  *)
(* player times out again in the very next event, that event broadcasts    *)
(* player-eliminated and then exactly one game-ended, which names the      *)
(* other player as winner and whose scores are the two players' final      *)
(* lives: 0 for the eliminated player and 2 for the winner.                *)
(***************************************************************************)
\* room r runs a game of exactly its two players, s and another one
TwoPlayerGame(r, s) ==
    /\ r \in DOMAIN rooms
    /\ InProgress(rooms[r])
    /\ Len(rooms[r].players) = 2
    /\ Val(rooms[r].playerOrder) = MapKeys(rooms[r].players)
    /\ MapHas(rooms[r].players, s)

\* the player of a two-player room that is not s
OtherPlayer(r, s) ==
    IF rooms[r].players[1].id = s
    THEN rooms[r].players[2].id ELSE rooms[r].players[1].id

\* both players have all their lives and it is the turn of s
BeforeFirstTimeout(r, s) ==
    /\ TwoPlayerGame(r, s)
    /\ CurrentPlayer(rooms[r]) = s
    /\ \A i \in 1..2 : rooms[r].players[i].lives = DEFAULT_LIVES

\* the last event was the first timeout of s, which passed the turn on
AfterFirstTimeout(r, s) ==
    /\ TwoPlayerGame(r, s)
    /\ handler = "submit-word"
    /\ Len(emitted) = 2
    /\ emitted[1].type = "player-lost-life"
    /\ emitted[1].to = r
    /\ emitted[1].id = s
    /\ emitted[2].type = "next-turn"
    /\ CurrentPlayer(rooms[r]) = OtherPlayer(r, s)
    /\ MapGet(rooms[r].players, OtherPlayer(r, s)).lives = DEFAULT_LIVES

C22_TwoTimeoutsEndGame ==
    [][handler' = "submit-word" =>
          \A s \in SocketIds, r \in RoomIds :
             /\ ( /\ BeforeFirstTimeout(r, s)
                  /\ \E d \in SubmitInputs :
                        /\ isTimeUp(d.timeRemaining)
                        /\ SubmitWord(s, r, d.word, d.timeRemaining) )
                => ( /\ Len(emitted') = 2
                     /\ emitted'[1].type = "player-lost-life"
                     /\ emitted'[1].to = r
                     /\ emitted'[1].id = s
                     /\ emitted'[1].livesLeft = 1
                     /\ emitted'[2].type = "next-turn" )
             /\ ( /\ AfterFirstTimeout(r, s)
                  /\ \E d \in SubmitInputs :
                        /\ isTimeUp(d.timeRemaining)
                        /\ SubmitWord(s, r, d.word, d.timeRemaining) )
                => ( /\ Len(emitted') = 2
                     /\ emitted'[1].type = "player-eliminated"
                     /\ emitted'[1].to = r
                     /\ emitted'[1].id = s
                     /\ emitted'[2].type = "game-ended"
                     /\ emitted'[2].to = r
                     /\ emitted'[2].winner = Some(OtherPlayer(r, s))
                     /\ Len(emitted'[2].scores) = 2
                     /\ \A i \in 1..2 :
                           emitted'[2].scores[i] =
                              <<rooms[r].players[i].id,
                                IF rooms[r].players[i].id = s
                                THEN 0 ELSE DEFAULT_LIVES>> )]_vars

\* the second timeout has just eliminated its sender and ended a game of two
C22_Witness ==
    /\ handler = "submit-word"
    /\ Len(emitted) = 2
    /\ emitted[1].type = "player-eliminated"
    /\ emitted[2].type = "game-ended"
    /\ IsDefined(emitted[2].winner)
    /\ emitted[2].to \in DOMAIN rooms
    /\ Len(rooms[emitted[2].to].players) = 2
    /\ \E i \in 1..2 :
          /\ rooms[emitted[2].to].players[i].id = emitted[1].id
          /\ rooms[emitted[2].to].players[i].lives = 0
    /\ \E i \in 1..2 :
          /\ rooms[emitted[2].to].players[i].id = Val(emitted[2].winner)
          /\ rooms[emitted[2].to].players[i].lives = DEFAULT_LIVES

(***************************************************************************)
(* C23: a game-ended that the turn engine broadcasts (at most 1 player of  *)
(* playerOrder alive) names the sole alive player as winner, or no winner  *)
(* when none is alive, and its scores have exactly one entry per player    *)
(* in the room, equal to that player's lives.                              *)
(***************************************************************************)
C23_NaturalGameEnd ==
    [][handler' = "submit-word" =>
          \A r \in RoomIds : \A i \in 1..Len(emitted') :
             (emitted'[i].type = "game-ended" /\ emitted'[i].to = r)
             => /\ r \in DOMAIN rooms
                /\ r \in DOMAIN rooms'
                /\ InProgress(rooms[r])
                /\ LET alive == AliveIds(Val(rooms[r].playerOrder),
                                         rooms'[r].players)
                   IN  /\ Cardinality(alive) <= 1
                       /\ alive = {} => emitted'[i].winner = undefined
                       /\ \A w \in alive : emitted'[i].winner = Some(w)
                /\ Len(emitted'[i].scores) = Len(rooms'[r].players)
                /\ \A j \in 1..Len(rooms'[r].players) :
                      emitted'[i].scores[j] =
                         <<rooms'[r].players[j].id,
                           rooms'[r].players[j].lives>>]_vars

\* a timeout has just ended a game that nobody survived: the other player of
\* the turn order had left the room
C23_Witness ==
    /\ handler = "submit-word"
    /\ \E i \in 1..Len(emitted) :
          /\ emitted[i].type = "game-ended"
          /\ emitted[i].winner = undefined
          /\ Len(emitted[i].scores) >= 1

(***************************************************************************)
(* C24: a disconnect does to the rooms what leave-room does for the room   *)
(* the connection was last active in: the player is no longer in its map,  *)
(* an emptied room is deleted, the owner changes by the reassignment       *)
(* policy if the player was the owner, and no other room changes; a        *)
(* disconnect of a connection with no active room changes no room.         *)
(***************************************************************************)
C24_DisconnectIsLeave ==
    [][handler' = "disconnect" =>
          \A s \in SocketIds :
             Disconnect(s) =>
                LET active == sockets[s].activeRoom
                IN  IF IsDefined(active) /\ Val(active) \in DOMAIN rooms
                    THEN LET r == Val(active)
                             rest == MapDelete(rooms[r].players, s)
                         IN  /\ \A q \in DOMAIN rooms \ {r} :
                                   q \in DOMAIN rooms' /\ rooms'[q] = rooms[q]
                             /\ IF rest = <<>>
                                THEN r \notin DOMAIN rooms'
                                ELSE /\ r \in DOMAIN rooms'
                                     /\ rooms'[r].players = rest
                                     /\ rooms'[r].owner =
                                           IF rooms[r].owner = s
                                           THEN ExpectedOwner(rest)
                                           ELSE rooms[r].owner
                    ELSE rooms' = rooms]_vars

(***************************************************************************)
(* C25: a join-room for a room id that does not exist creates the room     *)
(* with the joining connection as owner and sole player and replies        *)
(* isOwner = true; a join-room of another connection for a room that       *)
(* exists replies isOwner = false, leaves the owner as it was, and         *)
(* broadcasts a player list that holds the earlier players followed by     *)
(* the new one.                                                            *)
(***************************************************************************)
C25_JoinCreatesOrAppends ==
    [][handler' = "join-room" =>
          \A s \in SocketIds, r \in RoomIds :
             JoinRoom(s, r) =>
                /\ replies'[1].success
                /\ r \in DOMAIN rooms'
                /\ r \notin DOMAIN rooms =>
                      /\ rooms'[r].owner = s
                      /\ MapKeys(rooms'[r].players) = <<s>>
                      /\ replies'[1].isOwner
                /\ (r \in DOMAIN rooms /\ ~MapHas(rooms[r].players, s)) =>
                      /\ ~replies'[1].isOwner
                      /\ rooms'[r].owner = rooms[r].owner
                      /\ \E i \in 1..Len(emitted') :
                            /\ emitted'[i].type = "room-players"
                            /\ emitted'[i].to = r
                            /\ emitted'[i].ownerId = rooms[r].owner
                            /\ MapKeys(emitted'[i].players) =
                                  Append(MapKeys(rooms[r].players), s)]_vars

\* a second connection has just joined a room and was told it is not the owner
C25_Witness ==
    /\ handler = "join-room"
    /\ Len(replies) = 1
    /\ ~replies[1].isOwner
    /\ \E r \in DOMAIN rooms :
          /\ Len(rooms[r].players) = 2
          /\ rooms[r].owner = rooms[r].players[1].id
          /\ \E i \in Sent("room-players", r) :
                emitted[i].players = rooms[r].players

(***************************************************************************)
(* C26: an end-game from the owner of the room replies true and            *)
(* broadcasts one game-ended whose scores are every player's lives and     *)
(* whose winner is the earliest-joined of the players with the most        *)
(* lives; from any other connection, or for a room that does not exist,    *)
(* it replies false and broadcasts nothing.                                *)
(***************************************************************************)
\* the earliest-joined player among those with the most lives
EarliestWithMaxLives(players) ==
    players[CHOOSE i \in 1..Len(players) :
               /\ \A j \in 1..Len(players) : players[j].lives <= players[i].lives
               /\ \A j \in 1..(i - 1) : players[j].lives < players[i].lives].id

C26_EndGameByOwner ==
    [][handler' = "end-game" =>
          \A s \in SocketIds, r \in RoomIds :
             EndGame(s, r) =>
                IF r \in DOMAIN rooms /\ rooms[r].owner = s
                THEN /\ replies'[1].success
                     /\ Len(emitted') = 1
                     /\ emitted'[1].type = "game-ended"
                     /\ emitted'[1].to = r
                     /\ emitted'[1].scores = Scores(rooms[r].players)
                     /\ emitted'[1].winner =
                           Some(EarliestWithMaxLives(rooms[r].players))
                ELSE /\ ~replies'[1].success
                     /\ emitted' = <<>>]_vars

(***************************************************************************)
(* C27: an event that takes a life from a player broadcasts exactly one    *)
(* of player-eliminated and player-lost-life about that player:            *)
(* player-eliminated when the lives have just reached exactly 0, and       *)
(* player-lost-life with the remaining count when they are still above 0   *)
(* (so a player is announced as eliminated once, on reaching 0).           *)
(***************************************************************************)
LifeEvents == {"player-eliminated", "player-lost-life"}

C27_OneLifeLossEvent ==
    [][handler' = "submit-word" =>
          \A s \in SocketIds, r \in RoomIds :
             ( /\ r \in DOMAIN rooms
               /\ MapHas(rooms[r].players, s)
               /\ \E d \in SubmitInputs :
                     /\ isTimeUp(d.timeRemaining)
                     /\ SubmitWord(s, r, d.word, d.timeRemaining) )
             => LET lives == MapGet(rooms'[r].players, s).lives
                IN  /\ lives = MapGet(rooms[r].players, s).lives - 1
                    /\ Cardinality({i \in 1..Len(emitted') :
                                       emitted'[i].type \in LifeEvents}) = 1
                    /\ emitted'[1].type \in LifeEvents
                    /\ emitted'[1].to = r
                    /\ emitted'[1].id = s
                    /\ emitted'[1].type = "player-eliminated" <=> lives = 0
                    /\ emitted'[1].type = "player-lost-life" =>
                          /\ lives > 0
                          /\ emitted'[1].livesLeft = lives]_vars

(***************************************************************************)
(* C28: a player-typing event broadcasts player-typing-update only when    *)
(* the room has a game in progress and the sender is                       *)
(* playerOrder[currentIndex]; from any other sender, or without Turn       *)
(* State, nothing is broadcast; in both cases no room and no session       *)
(* changes.                                                                *)
(***************************************************************************)
C28_TypingOnlyFromTurnHolder ==
    [][handler' = "player-typing" =>
          \A s \in SocketIds, r \in RoomIds :
             PlayerTyping(s, r) =>
                /\ rooms' = rooms
                /\ sockets' = sockets
                /\ IF /\ r \in DOMAIN rooms
                      /\ InProgress(rooms[r])
                      /\ CurrentPlayer(rooms[r]) = s
                   THEN /\ Len(emitted') = 1
                        /\ emitted'[1].type = "player-typing-update"
                        /\ emitted'[1].to = r
                        /\ emitted'[1].id = s
                   ELSE emitted' = <<>>]_vars

\* a player-typing has just been dropped while a game is in progress
C28_Witness ==
    /\ handler = "player-typing"
    /\ emitted = <<>>
    /\ \E r \in DOMAIN rooms : InProgress(rooms[r])

(***************************************************************************)
(* C29: no room is stuck without a game: in every reachable state, a       *)
(* start-game by the owner of a room that is IDLE (no turn order, no       *)
(* current index) and has at least 2 players replies true and leaves the   *)
(* room IN_PROGRESS, also after a game of the room has ended.              *)
(***************************************************************************)
C29_IdleRoomRestarts ==
    [][handler' = "start-game" =>
          \A s \in SocketIds, r \in RoomIds :
             ( /\ r \in DOMAIN rooms
               /\ ~InProgress(rooms[r])
               /\ Len(rooms[r].players) >= 2
               /\ rooms[r].owner = s
               /\ StartGame(s, r) )
             => ( /\ replies'[1].success
                  /\ InProgress(rooms'[r])
                  /\ IsDefined(rooms'[r].currentLetters)
                  /\ MapHas(rooms'[r].players, CurrentPlayer(rooms'[r]))
                  /\ \E i \in 1..Len(emitted') :
                        /\ emitted'[i].type = "game-started"
                        /\ emitted'[i].to = r )]_vars

\* a game has just been started in a room of at least 2 players
C29_Witness ==
    /\ handler = "start-game"
    /\ Len(replies) = 1
    /\ replies[1].success
    /\ \E r \in DOMAIN rooms :
          /\ InProgress(rooms[r])
          /\ Len(rooms[r].players) >= 2
          /\ Sent("game-started", r) # {}
          /\ Val(rooms[r].usedWords) = {}

(***************************************************************************)
(* C30: for a submit-word in time from the turn holder of an IN_PROGRESS   *)
(* room, the feedback is that of the first failing check in the order      *)
(* dictionary validity, not already used, contains the challenge; and      *)
(* every such rejection replies correct = false, changes no player's       *)
(* lives, leaves currentIndex and usedWords unchanged and broadcasts       *)
(* nothing.                                                                *)
(***************************************************************************)
\* the feedback the claim expects for a word, given the used words and the
\* challenge of the room
ExpectedFeedback(word, room) ==
    IF toLowerCase(word) \notin validWords
    THEN "Not a valid word"
    ELSE IF IsDefined(room.usedWords) /\ toLowerCase(word) \in Val(room.usedWords)
    THEN "This word has already been used"
    ELSE IF \/ ~IsDefined(room.currentLetters)
            \/ ~includes(toLowerCase(word), toLowerCase(Val(room.currentLetters)))
    THEN "Word does not contain"
    ELSE "Correct!"

\* the submit-word payloads that are not out of time
InTimeInputs == {d \in SubmitInputs : ~isTimeUp(d.timeRemaining)}

\* (only the turn holder of r can satisfy MaySubmit(s, r))
C30_FirstFailingCheck ==
    [][handler' = "submit-word" =>
          \A r \in DOMAIN rooms :
             InProgress(rooms[r]) =>
                LET s == CurrentPlayer(rooms[r])
                IN  MaySubmit(s, r) =>
                       \A d \in InTimeInputs :
                          SubmitWord(s, r, d.word, d.timeRemaining)
                          => /\ replies'[1].feedback =
                                   ExpectedFeedback(d.word, rooms[r])
                             /\ replies'[1].correct <=>
                                   replies'[1].feedback = "Correct!"
                             /\ ~replies'[1].correct =>
                                   /\ rooms'[r].players = rooms[r].players
                                   /\ rooms'[r].currentPlayerIndex =
                                         rooms[r].currentPlayerIndex
                                   /\ rooms'[r].usedWords = rooms[r].usedWords
                                   /\ emitted' = <<>>]_vars

\* the turn holder has just sent a dictionary word that lacks the challenge
C30_Witness ==
    /\ handler = "submit-word"
    /\ Len(replies) = 1
    /\ replies[1].feedback = "Word does not contain"
    /\ emitted = <<>>
    /\ \E r \in DOMAIN rooms : InProgress(rooms[r])

(***************************************************************************)
(* C31: when the turn holder submits, in time, a dictionary word that is   *)
(* unused and contains the challenge, the reply is correct = true and no   *)
(* lives change; with at least 2 alive players the lower-cased word is     *)
(* added to usedWords and the new current player is the first player       *)
(* after the old currentIndex, cyclically in playerOrder, with lives > 0.  *)
(***************************************************************************)
\* the word passes the three checks in room
Acceptable(word, room) ==
    /\ toLowerCase(word) \in validWords
    /\ IsDefined(room.usedWords)
    /\ toLowerCase(word) \notin Val(room.usedWords)
    /\ IsDefined(room.currentLetters)
    /\ includes(toLowerCase(word), toLowerCase(Val(room.currentLetters)))

\* the first player after index i, cyclically in the order of room, that is
\* in the room with lives > 0 (there is one when a player is alive)
NextAlivePlayer(room, i) ==
    LET order == Val(room.playerOrder)
        n == Len(order)
        at(k) == order[((i + k) % n) + 1]
        ok(k) == MapHas(room.players, at(k))
                 /\ MapGet(room.players, at(k)).lives > 0
    IN  at(CHOOSE k \in 1..n : ok(k) /\ \A j \in 1..(k - 1) : ~ok(j))

C31_AcceptedWordAdvances ==
    [][handler' = "submit-word" =>
          \A r \in DOMAIN rooms :
             InProgress(rooms[r]) =>
                LET s == CurrentPlayer(rooms[r])
                IN  MaySubmit(s, r) =>
                       \A d \in InTimeInputs :
                          ( /\ Acceptable(d.word, rooms[r])
                            /\ SubmitWord(s, r, d.word, d.timeRemaining) )
                          => /\ replies'[1].correct
                             /\ rooms'[r].players = rooms[r].players
                             /\ Cardinality(AliveIds(Val(rooms[r].playerOrder),
                                                     rooms[r].players)) >= 2
                                => /\ ~raised'
                                   /\ rooms'[r].usedWords =
                                         Some(Val(rooms[r].usedWords)
                                                 \cup {toLowerCase(d.word)})
                                   /\ InProgress(rooms'[r])
                                   /\ CurrentPlayer(rooms'[r]) =
                                         NextAlivePlayer(
                                            rooms[r],
                                            Val(rooms[r].currentPlayerIndex))]_vars

(***************************************************************************)
(* C32: a start-game that replies true leaves playerOrder equal to the     *)
(* room's member ids in join order, currentIndex within                    *)
(* 0..Len(playerOrder)-1, usedWords empty and currentChallenge set, and    *)
(* broadcasts a game-started that names playerOrder[currentIndex] as       *)
(* current player, with that challenge.                                    *)
(***************************************************************************)
C32_StartSetsTurnState ==
    [][handler' = "start-game" =>
          \A r \in RoomIds :
             ( /\ replies'[1].success
               /\ \E s \in SocketIds : StartGame(s, r) )
             => /\ rooms'[r].playerOrder = Some(MapKeys(rooms'[r].players))
                /\ MapKeys(rooms'[r].players) = MapKeys(rooms[r].players)
                /\ IsDefined(rooms'[r].currentPlayerIndex)
                /\ Val(rooms'[r].currentPlayerIndex) \in
                      0..(Len(rooms'[r].players) - 1)
                /\ rooms'[r].usedWords = Some({})
                /\ IsDefined(rooms'[r].currentLetters)
                /\ Val(rooms'[r].currentLetters) \in validSequences
                /\ Len(emitted') = 1
                /\ emitted'[1].type = "game-started"
                /\ emitted'[1].to = r
                /\ emitted'[1].currentPlayer = Some(CurrentPlayer(rooms'[r]))
                /\ emitted'[1].currentLetters = rooms'[r].currentLetters]_vars

(***************************************************************************)
(* C33: within a game the challenge changes only at game start: every      *)
(* event other than start-game that finds a room IN_PROGRESS and leaves    *)
(* it IN_PROGRESS (accepted word, rejection, timeout, turn advance, join,  *)
(* leave) leaves currentChallenge as it was, and every next-turn it        *)
(* broadcasts carries that value.                                          *)
(***************************************************************************)
C33_ChallengeFixedInGame ==
    [][handler' # "start-game" =>
          \A r \in DOMAIN rooms :
             InProgress(rooms[r]) =>
                /\ \A i \in 1..Len(emitted') :
                      (emitted'[i].type = "next-turn" /\ emitted'[i].to = r)
                      => emitted'[i].currentLetters = rooms[r].currentLetters
                /\ (r \in DOMAIN rooms' /\ InProgress(rooms'[r]))
                   => rooms'[r].currentLetters = rooms[r].currentLetters]_vars

\* an accepted word has just passed the turn on, under the same challenge
C33_Witness ==
    /\ handler = "submit-word"
    /\ Len(replies) = 1
    /\ replies[1].correct
    /\ \E r \in DOMAIN rooms :
          /\ InProgress(rooms[r])
          /\ \E i \in Sent("next-turn", r) :
                emitted[i].currentLetters = rooms[r].currentLetters

(***************************************************************************)
(* C34: rooms are independent: a leave-room, start-game, end-game,         *)
(* submit-word, player-typing or get-room-players addressed to a room      *)
(* changes no other room, and a join-room changes only the room it names   *)
(* and the room the connection was active in before.                       *)
(***************************************************************************)
\* the room ids whose room an event has created, deleted or changed
RoomsChanged ==
    {q \in RoomIds :
        \/ (q \in DOMAIN rooms) # (q \in DOMAIN rooms')
        \/ /\ q \in DOMAIN rooms
           /\ q \in DOMAIN rooms'
           /\ rooms'[q] # rooms[q]}

\* (the cheaper parts are written first; each event is matched against the
\* handler that ran)
C34_RoomsIndependent ==
    [][\/ rooms' = rooms
       \/ \A r \in RoomIds :
             \/ RoomsChanged \subseteq {r}
             \/ CASE handler' = "leave-room" ->
                        ~\E s \in SocketIds : LeaveRoom(s, r)
                  [] handler' = "start-game" ->
                        ~\E s \in SocketIds : StartGame(s, r)
                  [] handler' = "end-game" ->
                        ~\E s \in SocketIds : EndGame(s, r)
                  [] handler' = "player-typing" ->
                        ~\E s \in SocketIds : PlayerTyping(s, r)
                  [] handler' = "get-room-players" ->
                        ~\E s \in SocketIds : GetRoomPlayers(s, r)
                  [] handler' = "submit-word" ->
                        ~\E s \in SocketIds, d \in SubmitInputs :
                            SubmitWord(s, r, d.word, d.timeRemaining)
                  [] handler' = "join-room" ->
                        \A s \in SocketIds :
                           JoinRoom(s, r) =>
                              RoomsChanged \subseteq
                                 ({r} \cup {q \in RoomIds :
                                               sockets[s].activeRoom = Some(q)})
                  [] OTHER -> TRUE]_vars

\* a word has just been accepted in one room while another room exists
C34_Witness ==
    /\ handler = "submit-word"
    /\ Len(replies) = 1
    /\ replies[1].correct
    /\ Cardinality(DOMAIN rooms) = 2

(***************************************************************************)
(* C35: start-game, end-game, submit-word, player-typing and               *)
(* get-room-players create and delete no room and leave every room's       *)
(* member ids, their join order and the owner as they were (only           *)
(* join-room, leave-room and disconnect change them).                      *)
(***************************************************************************)
MembershipKeepers ==
    {"start-game", "end-game", "submit-word", "player-typing",
     "get-room-players"}

C35_MembershipOnlyByJoinLeave ==
    [][handler' \in MembershipKeepers =>
          /\ DOMAIN rooms' = DOMAIN rooms
          /\ \A r \in DOMAIN rooms :
                /\ MapKeys(rooms'[r].players) = MapKeys(rooms[r].players)
                /\ rooms'[r].owner = rooms[r].owner]_vars

\* a timeout has just eliminated a player, who is still a member of the room
C35_Witness ==
    /\ handler = "submit-word"
    /\ \E r \in DOMAIN rooms :
          \E i \in Sent("player-eliminated", r) :
             /\ MapHas(rooms[r].players, emitted[i].id)
             /\ MapGet(rooms[r].players, emitted[i].id).lives = 0
             /\ Len(rooms[r].players) >= 2

(***************************************************************************)
(* The client's timer (routes/game/[roomId]/+page.svelte)                  *)
(***************************************************************************)
\* GameSocketClient.submitWord(word): the method declares one parameter, so
\* a second argument of a call is dropped, and the payload it emits is
\* {roomId, word}: the timeRemaining field is missing
GameSocketClientSubmitWord(word, timeRemaining) ==
    [word |-> word, timeRemaining |-> undefined]

\* submitTimeUp: socketClient.submitWord(wordInput.trim(), 0), for the
\* trimmed input word
submitTimeUp(word) == GameSocketClientSubmitWord(word, 0)

(***************************************************************************)
(* C36: when the timer of the turn holder's client reaches 0, the          *)
(* submit-word payload that submitTimeUp sends through                     *)
(* GameSocketClient.submitWord is out of time for the server               *)
(* (timeRemaining <= 0), the server takes one life from that player and    *)
(* the turn advances (next-turn or game-ended is broadcast).               *)
(***************************************************************************)
C36_ClientTimeoutCostsLife ==
    [][handler' = "submit-word" =>
          \A r \in DOMAIN rooms :
             InProgress(rooms[r]) =>
                LET s == CurrentPlayer(rooms[r])
                IN  MaySubmit(s, r) =>
                       \A w \in WordInputs :
                          LET d == submitTimeUp(w)
                          IN  (d \in SubmitInputs
                                  /\ SubmitWord(s, r, d.word, d.timeRemaining))
                              => /\ isTimeUp(d.timeRemaining)
                                 /\ r \in DOMAIN rooms'
                                 /\ MapGet(rooms'[r].players, s).lives =
                                       MapGet(rooms[r].players, s).lives - 1
                                 /\ \E i \in 1..Len(emitted') :
                                       emitted'[i].type \in {"next-turn", "game-ended"}]_vars

(***************************************************************************)
(* A game that nobody disturbs                                             *)
(***************************************************************************)
\* room r runs a game
Playing(r) == r \in DOMAIN rooms /\ InProgress(rooms[r])

\* s is a member of a room that runs a game
InAGame(s) == \E r \in DOMAIN rooms : Playing(r) /\ MapHas(rooms[r].players, s)

\* a timeout of the turn holder that passes the turn on and takes no life
TurnTimeoutNoLoss(r) ==
    /\ ~raised
    /\ Playing(r)
    /\ LET s == CurrentPlayer(rooms[r])
       IN  /\ sockets[s].status = "connected"
           /\ MapHas(rooms[r].players, s)
           /\ \E letters \in validSequences :
                 Finish("submit-word", nextTurn(Start, r, letters), sockets,
                        << WordReply(FALSE, "Time is up") >>)

\* lines 357-383 for the turn holder of r: the submit-word with
\* timeRemaining <= 0 that ends the holder's turn. It is taken however many
\* events the run has handled: the bound on the events is on the other ones
TurnTimeout(r) ==
    /\ ~raised
    /\ Playing(r)
    /\ LET s == CurrentPlayer(rooms[r])
       IN  /\ sockets[s].status = "connected"
           /\ MapHas(rooms[r].players, s)
           /\ \E letters \in validSequences : SubmitTimeUp(s, r, letters)

\* events handled before only the timeouts of the turn holders go on
MaxQuietEvents == 5

\* the run still takes events other than the holders' timeouts
Early == handled < MaxQuietEvents

\* the server while no game is disturbed: no player of a running game joins
\* a room, leaves or disconnects, nobody joins a room that runs a game, and
\* start-game and end-game come only for rooms that run no game
QuietNext ==
    \/ \E s \in SocketIds, r \in RoomIds :
          Early /\ ~InAGame(s) /\ ~Playing(r) /\ JoinRoom(s, r)
    \/ \E s \in SocketIds, r \in RoomIds : Early /\ GetRoomPlayers(s, r)
    \/ \E s \in SocketIds, r \in RoomIds :
          Early /\ ~InAGame(s) /\ ~Playing(r) /\ LeaveRoom(s, r)
    \/ \E s \in SocketIds, r \in RoomIds :
          Early /\ ~Playing(r) /\ StartGame(s, r)
    \/ \E s \in SocketIds, r \in RoomIds :
          Early /\ ~Playing(r) /\ EndGame(s, r)
    \/ \E s \in SocketIds, r \in RoomIds, d \in SubmitInputs :
          Early /\ SubmitWord(s, r, d.word, d.timeRemaining)
    \/ \E s \in SocketIds, r \in RoomIds : Early /\ PlayerTyping(s, r)
    \/ \E s \in SocketIds : Early /\ ~InAGame(s) /\ Disconnect(s)
    \/ \E r \in RoomIds : TurnTimeout(r)

\* every turn of every game eventually ends in a timeout of its holder
QuietSpec ==
    Init /\ [][QuietNext]_vars /\ \A r \in RoomIds : WF_vars(TurnTimeout(r))

(***************************************************************************)
(* C37: in a game in which no player joins, rejoins, leaves or             *)
(* disconnects and no start-game or end-game occurs, no event increases    *)
(* the sum of the lives of the players of playerOrder, and every timeout   *)
(* of the turn holder decreases it by exactly 1; when every turn           *)
(* eventually ends in such a timeout, the game eventually broadcasts       *)
(* game-ended with exactly one player alive.                               *)
(***************************************************************************)
RECURSIVE SumLives(_, _)
\* the sum of the lives that the players of order have in the map players
SumLives(order, players) ==
    IF order = <<>> THEN 0
    ELSE MapGet(players, Head(order)).lives + SumLives(Tail(order), players)

\* the last event ended the game of r and left exactly one member alive
EndedWithOneAlive(r) ==
    /\ r \in DOMAIN rooms
    /\ handler = "submit-word"
    /\ Sent("game-ended", r) # {}
    /\ ~InProgress(rooms[r])
    /\ Cardinality({i \in 1..Len(rooms[r].players) :
                       rooms[r].players[i].lives > 0}) = 1

\* r runs a game whose every turn can end in a timeout of its holder: the
\* connection of each player of playerOrder is open (the player of a closed
\* connection sends no submit-word, and stays in a room with the empty id)
CanTimeOut(r) ==
    /\ Playing(r)
    /\ \A i \in 1..Len(Val(rooms[r].playerOrder)) :
          sockets[Val(rooms[r].playerOrder)[i]].status = "connected"

C37_LivesSumDecreasesToGameEnd ==
    /\ [][\A r \in RoomIds :
             Playing(r) =>
                LET order == Val(rooms[r].playerOrder)
                    before == SumLives(order, rooms[r].players)
                IN  /\ r \in DOMAIN rooms'
                    /\ \A i \in 1..Len(order) : MapHas(rooms'[r].players, order[i])
                    /\ SumLives(order, rooms'[r].players) <= before
                    /\ TurnTimeout(r) =>
                          SumLives(order, rooms'[r].players) = before - 1]_vars
    /\ \A r \in RoomIds : CanTimeOut(r) ~> EndedWithOneAlive(r)

\* a game of three players has just ended by the timeout of its holder
C37_Witness ==
    \E r \in DOMAIN rooms :
       /\ EndedWithOneAlive(r)
       /\ Len(rooms[r].players) = 3
       /\ emitted[1].type = "player-eliminated"

(***************************************************************************)
(* C38: a player who joins a room while its game is in progress is not     *)
(* added to playerOrder: the join leaves that player outside playerOrder   *)
(* and leaves playerOrder, currentIndex, the challenge and usedWords as    *)
(* they were, and until the next start-game every next-turn names a        *)
(* player of playerOrder and every natural game end that names a winner    *)
(* names a player of playerOrder, so the joiner is never named.            *)
(***************************************************************************)
\* s is one of the ids of the optional turn order
InOrder(s, playerOrder) ==
    \E i \in 1..Len(Val(playerOrder)) : Val(playerOrder)[i] = s

C38_JoinerOutsideTurnOrder ==
    [][\A r \in DOMAIN rooms :
          Playing(r) =>
             /\ handler' = "join-room" =>
                   \A s \in SocketIds :
                      JoinRoom(s, r) =>
                         /\ r \in DOMAIN rooms'
                         /\ rooms'[r].playerOrder = rooms[r].playerOrder
                         /\ rooms'[r].currentPlayerIndex = rooms[r].currentPlayerIndex
                         /\ rooms'[r].currentLetters = rooms[r].currentLetters
                         /\ rooms'[r].usedWords = rooms[r].usedWords
                         /\ ~InOrder(s, rooms'[r].playerOrder)
             /\ handler' = "submit-word" =>
                   \A i \in 1..Len(emitted') :
                      emitted'[i].to = r =>
                         /\ emitted'[i].type = "next-turn" =>
                               InOrder(Val(emitted'[i].currentPlayer), rooms[r].playerOrder)
                         /\ (emitted'[i].type = "game-ended" /\ IsDefined(emitted'[i].winner)) =>
                               InOrder(Val(emitted'[i].winner), rooms[r].playerOrder)]_vars

(***************************************************************************)
(* C39: during a game usedWords only grows. Every element is the         *)
(* lowercase form of a dictionary word that contains the game's challenge; *)
(* an event that is not a successful start-game and does not end the game  *)
(* removes no element; an element is added only by a submit-word of the    *)
(* turn holder that is accepted, and it is the lowercase form of the       *)
(* submitted word; a successful start-game leaves the set empty.           *)
(***************************************************************************)
\* the last handler started a game in r
GameStarted(r) ==
    \E i \in 1..Len(emitted) : emitted[i].type = "game-started" /\ emitted[i].to = r

C39_UsedWordsOnlyGrows ==
    [][\A r \in DOMAIN rooms :
          /\ (r \in DOMAIN rooms' /\ GameStarted(r)') =>
                rooms'[r].usedWords = Some({})
          /\ (Playing(r) /\ IsDefined(rooms[r].usedWords)) =>
                \A e \in Val(rooms[r].usedWords) :
                   /\ e = toLowerCase(e)
                   /\ isValidWord(e)
                   /\ IsDefined(rooms[r].currentLetters)
                   /\ containsSequence(e, Val(rooms[r].currentLetters))
          /\ (Playing(r) /\ Playing(r)' /\ ~GameStarted(r)') =>
                /\ IsDefined(rooms[r].usedWords)
                /\ IsDefined(rooms'[r].usedWords)
                /\ Val(rooms[r].usedWords) \subseteq Val(rooms'[r].usedWords)
                /\ \A e \in Val(rooms'[r].usedWords) \ Val(rooms[r].usedWords) :
                      /\ handler' = "submit-word"
                      /\ replies'[1].correct
                      /\ Val(rooms'[r].usedWords) = Val(rooms[r].usedWords) \cup {e}
                      /\ \E d \in SubmitInputs :
                            /\ toLowerCase(d.word) = e
                            /\ SubmitWord(CurrentPlayer(rooms[r]), r,
                                          d.word, d.timeRemaining)]_vars

====
